---- MODULE Spec2Model ----
(***************************************************************************)
(* Event queue, input bridge and job supervisor of the vim event-loop      *)
(* patches: src/message_queue.c (FEAT_MESSAGEQUEUE), src/event_loop.c      *)
(* (FEAT_EVENT_LOOP) and src/job.c (FEAT_JOB_CONTROL).                     *)
(*                                                                         *)
(* Specifications:                                                         *)
(*   SpecQueue   queue_push / queue_shift driven by two producer threads   *)
(*               and one consumer thread (the queue code is the same in    *)
(*               message_queue.c and event_loop.c)                         *)
(*   SpecMsg     message_queue.c: msg_inchar / char_wait / vgetcs          *)
(*   SpecMsgDrained  SpecMsg started after the queue held two events and   *)
(*               was emptied                                               *)
(*   SpecEv      event_loop.c: ev_inchar / inchar_loop                     *)
(*   SpecBridge  either of the two builds (feat chosen at start)           *)
(*   SpecJob     job.c: job_start / job_stop / job_write / jobs_poll /     *)
(*               job_activity_autocmds                                     *)
(*   SpecJobOut  SpecJob with the output of the children followed          *)
(*   SpecJobHost SpecJob with a host that may let a job-activity key pass  *)
(*   SpecJobFull SpecJob started with all slots but one occupied           *)
(*   SpecJobExit SpecJob with jobs_cleanup                                 *)
(*   SpecPoll    job.c: the host taking its keys from job_activity_poll    *)
(*   SpecPollLive  SpecPoll and job_stop, the polling loop kept running    *)
(***************************************************************************)
EXTENDS Integers, Sequences, FiniteSets, TLC

\* ------------------------------------------------------------------ bounds
\* Number of heap cells alloc can hand out for message_T / ev_T nodes in
\* SpecQueue, and in the input bridges.
MaxAddr == 3
MaxCells == 2
\* Total number of queue_push calls in one behaviour of SpecQueue.
MaxPush == 5
\* Total number of queue_push calls in one behaviour of the input bridges.
MaxEvents == 2
\* Total number of msg_inchar / ev_inchar calls with wtime # 0.
MaxCalls == 2

\* Total number of job_start / job_stop / job_write calls, plus the number
\* of failing system calls (pipe, fork, execvp, select, read, write) and
\* failing allocations, in one behaviour of the job supervisor.
MaxOps == 3
\* Number of job_start calls (and failures) after which Vim script starts
\* no further job in SpecPoll and SpecJobHost.
MaxPollOps == 1
\* Highest descriptor number the process may have open (RLIMIT_NOFILE - 1).
MaxFd == 20
\* jobs_poll cycles counted after a job's kill_timeout has reached 0.
MaxOvertime == 2

\* ------------------------------------------------------------- constants
NULL == 0

\* #define POLL_INTERVAL / KILL_TIMEOUT / MAX_RUNNING_JOBS / BUF_SIZE of job.c
POLL_INTERVAL == 100
KILL_TIMEOUT == 25
MAX_RUNNING_JOBS == 5
BUF_SIZE == 4096

Producers == {"p1", "p2"}
Threads == {"main", "bg"} \cup Producers

\* typedef enum { UserInput, DeferredCall } MessageType;  (Custom in event_loop.c)
MessageType == {"UserInput", "DeferredCall", "Custom"}

\* Values of the ms argument of queue_shift / wtime of msg_inchar that are
\* exercised: indefinite, and finite waits with and without a seconds part.
WaitMs == {-1, 100, 1500}
\* Microsecond part of the clock read by gettimeofday in timedwait.
ClockUsec == {0, 500000, 999999}
\* Lengths ui_inchar can return (0: nothing within the wait).
InLen == {0, 1, 2}

VARIABLES
    feat,           \* which build runs: "QUEUE" (harness), "MESSAGEQUEUE", "EVENT_LOOP", "JOB_CONTROL"
    pc,             \* position of each thread
    msg,            \* local msg of queue_push / rv of queue_shift, per thread
    wtime,          \* ms argument of the consumer's current queue_shift / msg_inchar (-1 between calls)
    heap,           \* message_T cells: heap[a] = [next, type, data]
    allocated,      \* cells handed out by alloc and not yet passed to vim_free
    message_queue,  \* [head, tail]
    qsig,           \* message_queue.cond was signalled while the consumer waits on it
    pushed,         \* history: the events in the order queue_push linked them
    popped,         \* history: the events in the order queue_shift returned them
    nextid,         \* number of messages created so far
    exited,         \* "" while the process runs, else why it ended
    io_mutex,       \* 1 when io_mutex is locked
    holds,          \* threads between a successful lock(&io_mutex) and their unlock
    is_waiting, is_polling,
    cwsig,          \* char_wait_cond was signalled while the background thread waits on it
    cur_len,
    read_len,       \* history: for every UserInput event (by its data), the length the ui_inchar
                    \* call returned after which the input thread pushed it
    go_signals,     \* history: number of notify(&char_wait_cond) calls
    ret,            \* last value returned by msg_inchar / ev_inchar
    calls,          \* number of msg_inchar / ev_inchar calls with wtime # 0
    deadline,       \* the clock value, the ms argument and the abstime of the pthread_cond_timedwait
                    \* call that the consumer is in or that ended the process (else NoDeadline)
    spurious,       \* whether the platform's condition waits wake up spuriously
    cond_result,    \* value pthread_cond_wait / pthread_cond_timedwait gave the consumer in the current call
    job_table,      \* job.c: slot i of job_table holds job_table[i - 1] of the source, NULL or a job
    job_count,
    initialized,
    open_fds,       \* descriptors open in the vim process
    alive_pids,     \* child processes that have not exited
    nextpid,        \* number of successful fork calls so far
    job_key,        \* "K_JOB_ACTIVITY" between jobs_poll returning TRUE and job_activity_autocmds
    job_ret,        \* last job_start call: what failed in it ("" when nothing did) and what it returned
    job_data,       \* history: the ids in the lists put in v:job_data, one after the other, by
                    \* the job_activity_autocmds call that has just returned; <<>> once the
                    \* job module has run again
    cleanup,        \* history of the jobs_cleanup call: the table and the live processes it
                    \* found, and what it did, in order
    jap_pc,         \* job_activity_poll: "host" outside it, "wait" / "poll" inside its loop
    trig_curshold,  \* local of job_activity_poll
    ellapsed,       \* local of job_activity_poll
    p_ut,           \* the 'updatetime' option
    jap_ret,        \* last return of job_activity_poll: which return statement, and the length returned
    cycles,         \* history: ui_inchar waits of the current call while trig_curshold is set
    polled,         \* history: jobs_poll was called in the current job_activity_poll call
    ops             \* number of job_start / job_stop / job_write calls and of failed system calls so far

qvars == <<heap, allocated, message_queue, qsig, pushed, popped, nextid>>
iovars == <<io_mutex, holds, is_waiting, is_polling, cwsig, cur_len, read_len, go_signals, ret, calls>>
jvars == <<job_table, job_count, initialized, open_fds, alive_pids, nextpid, job_key, job_ret,
           job_data, cleanup, ops>>
pvars == <<jap_pc, trig_curshold, ellapsed, p_ut, jap_ret, cycles, polled>>
vars == <<feat, deadline, spurious, pc, msg, wtime, exited, cond_result, qvars, iovars, jvars, pvars>>

\* The addresses alloc can return.
Addr == DOMAIN heap

\* ------------------------------------------------------------ sequences
IsPrefix(s, t) == Len(s) <= Len(t) /\ \A i \in 1 .. Len(s) : s[i] = t[i]

Range(s) == {s[i] : i \in 1 .. Len(s)}

NoDuplicates(s) == \A i, j \in 1 .. Len(s) : i # j => s[i] # s[j]

\* ---------------------------------------------------------------- heap
\* alloc(sizeof(message_T)) followed by the three field assignments.
NewMessage(type, data) == [next |-> NULL, type |-> type, data |-> data]

\* A cell that is not allocated.  The contents of freed memory are
\* indeterminate and are never read: alloc's caller assigns all three fields
\* before the cell is used, so every free cell is shown with these values.
FreeCell == [next |-> NULL, type |-> "UserInput", data |-> 0]

\* vim_free(m)
Free(h, m) == IF m = NULL THEN h ELSE [h EXCEPT ![m] = FreeCell]

\* What the histories record of a message: its type and data.
Event(m) == [type |-> m.type, data |-> m.data]

\* Cells reachable from a by following next (at most MaxAddr links).
RECURSIVE Chain(_, _, _)
Chain(h, a, fuel) ==
    IF a = NULL \/ fuel = 0 THEN <<>>
    ELSE <<a>> \o Chain(h, h[a].next, fuel - 1)

\* data of the events linked from the queue head, in order.
QueueContents == LET c == Chain(heap, message_queue.head, MaxAddr)
                 IN [i \in 1 .. Len(c) |-> Event(heap[c[i]])]

\* ---------------------------------------------------------- queue_push
\* The cell whose next pointer queue_push writes when the queue is not
\* empty: head when tail is NULL, else tail.
PushLink(q) == IF q.tail = NULL THEN q.head ELSE q.tail

\* The part of queue_push that runs under message_queue.mutex.
queue_push(q, h, m) ==
    IF q.head = NULL
    THEN [queue |-> [q EXCEPT !.head = m],
          heap |-> [h EXCEPT ![m].next = q.head],
          notify |-> TRUE]
    ELSE [queue |-> [q EXCEPT !.tail = m],
          heap |-> [h EXCEPT ![PushLink(q)].next = m],
          notify |-> FALSE]

\* --------------------------------------------------------- queue_shift
\* rv = head; head = rv->next;
queue_shift_take(q, h) == [q EXCEPT !.head = h[q.head].next]

\* ------------------------------------------------------------ timedwait
\* The absolute deadline timedwait builds from gettimeofday and ms.
timedwait_ts(tv, ms) ==
    [tv_sec |-> tv.tv_sec + (ms \div 1000),
     tv_nsec |-> (1000 * tv.tv_usec) + ((ms % 1000) * 1000000)]

\* The clock read, the argument and the abstime of one timedwait call.
Deadline(tv, ms) == [now |-> tv, ms |-> ms, ts |-> timedwait_ts(tv, ms)]

\* No pthread_cond_timedwait call is in progress.
NoDeadline == Deadline([tv_sec |-> 0, tv_usec |-> 0], -1)

\* pthread_cond_timedwait rejects an abstime whose tv_nsec is out of range.
ValidTimespec(ts) == ts.tv_nsec >= 0 /\ ts.tv_nsec < 1000000000

\* What timedwait does with the result of pthread_cond_timedwait: "false"
\* for ETIMEDOUT, the fatal pthread_error for every other value.  The value
\* 0 (the wait was signalled) selects the default branch of the switch.
timedwait_result(result) ==
    CASE result = "ETIMEDOUT" -> "false"
      [] result = "EINVAL" -> "pthread_error: Value specified by abstime is invalid"
      [] result = "EPERM" -> "pthread_error: Doesn't own the mutex"
      [] OTHER -> "pthread_error: Unknown error waiting condition"

Running == exited = ""

\* POSIX: "Spurious wakeups from the pthread_cond_timedwait() or
\* pthread_cond_wait() functions may occur."  Whether they do is a property
\* of the platform, fixed for a behaviour.
SpuriousWakeup == spurious

WaitingOnQueue == pc["main"] \in {"q_wait", "q_timedwait"}

\* ---------------------------------------------------- queue_push (steps)
\* alloc + field assignments of queue_push, by thread t.
PushAlloc(t, type, next_pc) ==
    /\ \E a \in Addr \ allocated :
        /\ heap' = [heap EXCEPT ![a] = NewMessage(type, nextid + 1)]
        /\ allocated' = allocated \cup {a}
        /\ msg' = [msg EXCEPT ![t] = a]
    /\ nextid' = nextid + 1
    /\ pc' = [pc EXCEPT ![t] = next_pc]

\* lock(&message_queue.mutex) ... unlock(&message_queue.mutex) of queue_push.
\* tail->next = msg through a tail that was already passed to vim_free is a
\* write to freed memory: the store lands in the cell (which alloc may have
\* handed out again), or the process faults.
PushLocked(t, next_pc) ==
    LET r == queue_push(message_queue, heap, msg[t])
        dangling == message_queue.head # NULL /\ PushLink(message_queue) \notin allocated
    IN \/ /\ heap' = [a \in Addr |-> IF a \in allocated THEN r.heap[a] ELSE FreeCell]
          /\ message_queue' = r.queue
          /\ pushed' = Append(pushed, Event(heap[msg[t]]))
          /\ qsig' = IF r.notify /\ WaitingOnQueue THEN TRUE ELSE qsig
          /\ msg' = [msg EXCEPT ![t] = NULL]
          /\ pc' = [pc EXCEPT ![t] = next_pc]
          /\ UNCHANGED exited
       \/ /\ dangling
          /\ exited' = "fault: store to freed message through tail"
          /\ UNCHANGED <<heap, message_queue, pushed, qsig, msg, pc>>

\* --------------------------------------------------- queue_shift (steps)
\* lock; if (head == NULL) wait or timedwait; else take the head.
ShiftBegin ==
    /\ Running
    /\ pc["main"] = "shift"
    /\ IF message_queue.head # NULL
       THEN /\ msg' = [msg EXCEPT !["main"] = message_queue.head]
            /\ message_queue' = queue_shift_take(message_queue, heap)
            /\ popped' = Append(popped, Event(heap[message_queue.head]))
            /\ pc' = [pc EXCEPT !["main"] = "shifted"]
            /\ UNCHANGED <<qsig, exited, cond_result, deadline>>
       ELSE IF wtime >= 0
       THEN \E usec \in ClockUsec :
              /\ deadline' = Deadline([tv_sec |-> 0, tv_usec |-> usec], wtime)
              /\ IF ValidTimespec(timedwait_ts([tv_sec |-> 0, tv_usec |-> usec], wtime))
                 THEN /\ pc' = [pc EXCEPT !["main"] = "q_timedwait"]
                      /\ qsig' = FALSE
                      /\ UNCHANGED <<msg, message_queue, popped, exited, cond_result>>
                 ELSE /\ exited' = timedwait_result("EINVAL")
                      /\ cond_result' = "EINVAL"
                      /\ UNCHANGED <<msg, message_queue, popped, pc, qsig>>
       ELSE /\ pc' = [pc EXCEPT !["main"] = "q_wait"]
            /\ qsig' = FALSE
            /\ UNCHANGED <<msg, message_queue, popped, exited, cond_result, deadline>>
    /\ UNCHANGED <<feat, spurious, pvars, jvars, wtime, heap, allocated, pushed, nextid, iovars>>

\* pthread_cond_wait / pthread_cond_timedwait returns 0: signalled by
\* queue_push, or spuriously.  queue_shift then takes the head without
\* testing it again; timedwait treats 0 as an unknown error.
ShiftWake ==
    /\ Running
    /\ WaitingOnQueue
    /\ qsig \/ SpuriousWakeup
    \* a deadline of "now" (ms = 0) has passed before anything can wake the wait
    /\ pc["main"] = "q_timedwait" => wtime > 0
    /\ cond_result' = "0"
    /\ IF pc["main"] = "q_timedwait"
       THEN /\ exited' = timedwait_result("0")
            /\ UNCHANGED <<msg, message_queue, popped, pc, qsig>>
       ELSE IF message_queue.head = NULL
       THEN /\ exited' = "fault: rv->next with rv == NULL"
            /\ UNCHANGED <<msg, message_queue, popped, pc, qsig>>
       ELSE /\ msg' = [msg EXCEPT !["main"] = message_queue.head]
            /\ message_queue' = queue_shift_take(message_queue, heap)
            /\ popped' = Append(popped, Event(heap[message_queue.head]))
            /\ pc' = [pc EXCEPT !["main"] = "shifted"]
            /\ qsig' = FALSE
            /\ UNCHANGED exited
    /\ UNCHANGED <<feat, deadline, spurious, pvars, jvars, wtime, heap, allocated, pushed, nextid, iovars>>

\* pthread_cond_timedwait returns ETIMEDOUT: wait_result = FALSE, rv = NULL.
ShiftTimeout ==
    /\ Running
    /\ pc["main"] = "q_timedwait"
    /\ ~qsig
    /\ timedwait_result("ETIMEDOUT") = "false"
    /\ cond_result' = "ETIMEDOUT"
    /\ msg' = [msg EXCEPT !["main"] = NULL]
    /\ pc' = [pc EXCEPT !["main"] = "shifted"]
    /\ deadline' = NoDeadline
    /\ UNCHANGED <<feat, spurious, pvars, jvars, wtime, exited, qvars, iovars>>

\* -------------------------------------------------- job.c: initial state
\* What is recorded of a return of job_activity_poll: the return statement
\* taken, the value returned, and the wtime argument and the result of the
\* last ui_inchar call it made.
JapRet(from, len, arg, ui) == [from |-> from, len |-> len, arg |-> arg, ui |-> ui]

\* Values of the 'updatetime' option p_ut (milliseconds).
PUt == {0, 150, 200}

\* The job structure as the parent branch of job_start initialises it.  name
\* and argv are not modelled.  stdin is the list stdin_head .. stdin_tail.
\* log, wrote, queued, wfail, bp and own are histories: what jobs_poll did to
\* end the job, the bytes write(job->in) took, the bytes passed to job_write,
\* whether a write(job->in) has returned -1, what jobs_poll did with a full
\* buffer or an empty pending list of the job (see Registered), and the
\* descriptors pipe() made for the job that the job has not closed (see
\* Started).  out_pipe is the number of bytes in the pipe behind job->out
\* that the child has put there in a ChildWrite step.
NewJob(i, pid, in, out, err) ==
    [id |-> i, pid |-> pid, in |-> in, out |-> out, err |-> err,
     stdin |-> <<>>, stdout_buf_pos |-> 0, stderr_buf_pos |-> 0,
     stopped |-> FALSE, kill_timeout |-> KILL_TIMEOUT,
     log |-> <<>>, wrote |-> <<>>, queued |-> <<>>, wfail |-> FALSE, bp |-> {},
     own |-> {}, out_pipe |-> 0]

\* A NULL entry of job_table: shown as a job with id 0, which no job has.
NoJob == NewJob(0, 0, 0, 0, 0)

\* Before jobs_cleanup is called.
NoCleanup == [was |-> <<>>, alive |-> {}, log |-> <<>>]

\* struct job_T *job_table[MAX_RUNNING_JOBS] = {NULL}; job_count = 0;
\* initialized = FALSE.  The process starts with its three standard
\* descriptors open and no children.
InitJobTable ==
    /\ job_table = [i \in 1 .. MAX_RUNNING_JOBS |-> NoJob]
    /\ job_count = 0
    /\ initialized = FALSE
    /\ open_fds = {0, 1, 2}
    /\ alive_pids = {}
    /\ nextpid = 0
    /\ job_key = ""
    /\ job_ret = [failed |-> "", val |-> 0]
    /\ job_data = <<>>
    /\ cleanup = NoCleanup
    /\ ops = 0
    /\ jap_pc = "host"
    /\ trig_curshold = FALSE
    /\ ellapsed = 0
    /\ jap_ret = JapRet("", 0, 0, 0)
    /\ cycles = 0
    /\ polled = FALSE

\* ------------------------------------------------ SpecQueue: the harness
QueueMs == WaitMs \cup {0}

InitCommon ==
    /\ spurious \in BOOLEAN
    /\ deadline = NoDeadline
    /\ msg = [t \in Threads |-> NULL]
    /\ wtime = -1
    /\ allocated = {}
    /\ message_queue = [head |-> NULL, tail |-> NULL]
    /\ qsig = FALSE
    /\ pushed = <<>>
    /\ popped = <<>>
    /\ nextid = 0
    /\ exited = ""
    /\ cond_result = ""
    /\ is_waiting = FALSE
    /\ is_polling = FALSE
    /\ cwsig = FALSE
    /\ cur_len = 0
    /\ read_len = {}
    /\ go_signals = 0
    /\ ret = 0
    /\ calls = 0
    /\ InitJobTable
    /\ p_ut = 0

InitQueue ==
    /\ InitCommon
    /\ heap = [a \in 1 .. MaxAddr |-> FreeCell]
    /\ feat = "QUEUE"
    /\ pc = [t \in Threads |-> IF t = "bg" THEN "off" ELSE "idle"]
    /\ io_mutex = 0
    /\ holds = {}

\* The type each producer pushes: p1 stands for the input thread, p2 for a
\* thread calling message_loop_call / ev_emit.
ProducerType(p) == IF p = "p1" THEN "UserInput" ELSE "DeferredCall"

\* A producer thread calls queue_push(type, data).
QProdAlloc(p) ==
    /\ Running
    /\ pc[p] = "idle"
    /\ nextid < MaxPush
    /\ PushAlloc(p, ProducerType(p), "push")
    /\ UNCHANGED <<feat, deadline, spurious, pvars, jvars, wtime, exited, cond_result, message_queue, qsig, pushed, popped, iovars>>

QProdPush(p) ==
    /\ Running
    /\ pc[p] = "push"
    /\ PushLocked(p, "idle")
    /\ UNCHANGED <<feat, deadline, spurious, pvars, jvars, wtime, cond_result, allocated, popped, nextid, iovars>>

\* The consumer thread calls queue_shift(ms) ...
QConsCall ==
    /\ Running
    /\ pc["main"] = "idle"
    /\ \E ms \in QueueMs : wtime' = ms
    /\ pc' = [pc EXCEPT !["main"] = "shift"]
    /\ UNCHANGED <<feat, deadline, spurious, pvars, jvars, msg, exited, cond_result, qvars, iovars>>

\* ... and passes the message it got to vim_free.
QConsFree ==
    /\ Running
    /\ pc["main"] = "shifted"
    /\ allocated' = allocated \ {msg["main"]}
    /\ heap' = Free(heap, msg["main"])
    /\ msg' = [msg EXCEPT !["main"] = NULL]
    /\ pc' = [pc EXCEPT !["main"] = "idle"]
    /\ wtime' = -1
    /\ cond_result' = ""
    /\ UNCHANGED <<feat, deadline, spurious, pvars, jvars, exited, message_queue, qsig,
                   pushed, popped, nextid, iovars>>

NextQueue ==
    \/ \E p \in Producers : QProdAlloc(p)
    \/ \E p \in Producers : QProdPush(p)
    \/ QConsCall
    \/ ShiftBegin
    \/ ShiftWake
    \/ ShiftTimeout
    \/ QConsFree

SpecQueue == InitQueue /\ [][NextQueue]_vars

\* ------------------------------------------------------ lock and unlock
\* pthread_mutex_lock succeeds when the mutex is free.
CanLock(m) == m = 0

\* lock(&io_mutex) by thread t.
LockIo(t) ==
    /\ CanLock(io_mutex)
    /\ io_mutex' = 1
    /\ holds' = holds \cup {t}

\* unlock(&io_mutex) by thread t.
UnlockIo(t) ==
    /\ io_mutex' = 0
    /\ holds' = holds \ {t}

NumUserInput(s) == Cardinality({i \in 1 .. Len(s) : s[i].type = "UserInput"})

\* --------------------------------- steps shared by the two input bridges
\* if (wtime == 0) return ui_inchar(buf, maxlen, wtime, tb_change_cnt);
MainUiInchar ==
    /\ Running
    /\ pc["main"] = "ui_inchar"
    /\ \E len \in InLen : ret' = len
    /\ pc' = [pc EXCEPT !["main"] = "vim"]
    /\ wtime' = -1
    /\ UNCHANGED <<feat, deadline, spurious, pvars, jvars, msg, exited, cond_result, qvars, io_mutex, holds, is_waiting,
                   is_polling, cwsig, cur_len, read_len, go_signals, calls>>

\* message_loop_call(func) / ev_emit(event, arg), called from the main
\* thread while it runs vim code: queue_push(DeferredCall | Custom, ...).
HostPushAlloc ==
    /\ Running
    /\ pc["main"] = "vim"
    /\ nextid < MaxEvents
    /\ PushAlloc("main", IF feat = "MESSAGEQUEUE" THEN "DeferredCall" ELSE "Custom", "host_push")
    /\ UNCHANGED <<feat, deadline, spurious, pvars, jvars, wtime, exited, cond_result, message_queue, qsig, pushed, popped, iovars>>

HostPush ==
    /\ Running
    /\ pc["main"] = "host_push"
    /\ PushLocked("main", "vim")
    /\ UNCHANGED <<feat, deadline, spurious, pvars, jvars, wtime, cond_result, allocated, popped, nextid, iovars>>

\* BgLockIo with the lock left out: the read loop goes on to ui_inchar without lock(&io_mutex).
BgLockIo_NoLock ==
    /\ Running
    /\ pc["bg"] = "lock_io"
    /\ pc' = [pc EXCEPT !["bg"] = "ui_inchar"]
    /\ UNCHANGED <<feat, deadline, spurious, pvars, jvars, msg, wtime, exited, cond_result, qvars, iovars>>

\* lock(&io_mutex) at the top of the input thread's read loop.
BgLockIo ==
    /\ Running
    /\ pc["bg"] = "lock_io"
    /\ LockIo("bg")
    /\ pc' = [pc EXCEPT !["bg"] = "ui_inchar"]
    /\ UNCHANGED <<feat, deadline, spurious, pvars, jvars, msg, wtime, exited, cond_result, qvars, is_waiting, is_polling,
                   cwsig, cur_len, read_len, go_signals, ret, calls>>

\* unlock(&io_mutex) at the end of one slice of the read loop.
BgUnlockIo ==
    /\ Running
    /\ pc["bg"] \in {"unlock", "unlock_avail"}
    /\ UnlockIo("bg")
    /\ pc' = [pc EXCEPT !["bg"] = IF pc["bg"] = "unlock_avail" THEN "top" ELSE "lock_io"]
    /\ UNCHANGED <<feat, deadline, spurious, pvars, jvars, msg, wtime, exited, cond_result, qvars, is_waiting, is_polling,
                   cwsig, cur_len, read_len, go_signals, ret, calls>>

\* queue_push(UserInput, NULL) of the input thread, under the queue mutex.
BgPush ==
    /\ Running
    /\ pc["bg"] = "push"
    /\ PushLocked("bg", IF feat = "MESSAGEQUEUE" THEN "unlock_avail" ELSE "ev_wait")
    /\ UNCHANGED <<feat, deadline, spurious, pvars, jvars, wtime, cond_result, allocated, popped, nextid, iovars>>

\* ------------------------------------------- message_queue.c: msg_inchar
InitMsg ==
    /\ InitCommon
    /\ heap = [a \in 1 .. MaxCells |-> FreeCell]
    /\ feat = "MESSAGEQUEUE"
    /\ pc = [t \in Threads |-> CASE t = "main" -> "vim" [] t = "bg" -> "top" [] OTHER -> "off"]
    /\ io_mutex = 1
    /\ holds = {"main"}

\* msg_inchar(buf, maxlen, wtime, tb_change_cnt) up to the end of the first
\* part of char_wait: the wtime == 0 shortcut, else the test of is_polling
\* and unlock(&io_mutex).
MsgIncharCall ==
    /\ Running
    /\ feat = "MESSAGEQUEUE"
    /\ pc["main"] = "vim"
    /\ \E w \in WaitMs \cup {0} :
        /\ wtime' = w
        /\ IF w = 0
           THEN /\ pc' = [pc EXCEPT !["main"] = "ui_inchar"]
                /\ UNCHANGED <<io_mutex, holds, calls>>
           ELSE /\ calls < MaxCalls
                /\ calls' = calls + 1
                /\ UnlockIo("main")
                /\ pc' = [pc EXCEPT !["main"] = IF is_polling THEN "shift" ELSE "spin"]
    /\ UNCHANGED <<feat, deadline, spurious, pvars, jvars, msg, exited, cond_result, qvars, is_waiting, is_polling, cwsig,
                   cur_len, read_len, go_signals, ret>>

\* while (!is_waiting) pthread_sleep(100);  pthread_sleep is timedwait on
\* sleep_cond, which nobody signals: it times out, is rejected for its
\* deadline, or wakes spuriously.
CharWaitSpin ==
    /\ Running
    /\ pc["main"] = "spin"
    /\ IF is_waiting
       THEN /\ pc' = [pc EXCEPT !["main"] = "notify"]
            /\ UNCHANGED <<exited, deadline>>
       ELSE \E usec \in ClockUsec, woke \in {"ETIMEDOUT", "0"} :
              LET result == IF ValidTimespec(timedwait_ts([tv_sec |-> 0, tv_usec |-> usec], 100))
                            THEN woke ELSE "EINVAL"
              IN /\ exited' = IF timedwait_result(result) = "false" THEN exited
                              ELSE timedwait_result(result)
                 /\ deadline' = IF timedwait_result(result) = "false" THEN deadline
                                ELSE Deadline([tv_sec |-> 0, tv_usec |-> usec], 100)
                 /\ UNCHANGED pc
    /\ UNCHANGED <<feat, spurious, pvars, jvars, msg, wtime, cond_result, qvars, iovars>>

\* lock(&char_wait_mutex); notify(&char_wait_cond); unlock(&char_wait_mutex);
CharWaitNotify ==
    /\ Running
    /\ pc["main"] = "notify"
    /\ go_signals' = go_signals + 1
    /\ cwsig' = IF pc["bg"] = "cw_wait" THEN TRUE ELSE cwsig
    /\ pc' = [pc EXCEPT !["main"] = "shift"]
    /\ UNCHANGED <<feat, deadline, spurious, pvars, jvars, msg, wtime, exited, cond_result, qvars, io_mutex, holds,
                   is_waiting, is_polling, cur_len, read_len, ret, calls>>

\* lock(&io_mutex) after queue_shift, then the rest of the loop body of
\* msg_inchar: return 0 / return cur_len / next iteration.
MsgLockIo ==
    /\ Running
    /\ feat = "MESSAGEQUEUE"
    /\ pc["main"] = "shifted"
    /\ LockIo("main")
    /\ UNCHANGED exited
    /\ IF msg["main"] = NULL
       THEN /\ ret' = 0
            /\ pc' = [pc EXCEPT !["main"] = "vim"]
            /\ wtime' = -1
            /\ cond_result' = ""
            /\ UNCHANGED <<allocated, heap, msg>>
       ELSE /\ allocated' = allocated \ {msg["main"]}
            /\ heap' = Free(heap, msg["main"])
            /\ msg' = [msg EXCEPT !["main"] = NULL]
            /\ IF heap[msg["main"]].type = "UserInput"
               THEN /\ ret' = cur_len
                    /\ pc' = [pc EXCEPT !["main"] = "vim"]
                    /\ wtime' = -1
                    /\ cond_result' = ""
               ELSE /\ pc' = [pc EXCEPT !["main"] = "shift"]
                    /\ UNCHANGED <<ret, wtime, cond_result>>
    /\ UNCHANGED <<feat, deadline, spurious, pvars, jvars, message_queue, qsig, pushed, popped, nextid,
                   is_waiting, is_polling, cwsig, cur_len, read_len, go_signals, calls>>

\* lock(&io_mutex) by the thread that already holds it.  io_mutex has the
\* default type (pthread_mutex_init with a NULL attribute): relocking it is
\* undefined; the thread blocks for ever (no step), or pthread_mutex_lock
\* reports EDEADLK and lock() ends the process.
MsgRelockIo ==
    /\ Running
    /\ feat = "MESSAGEQUEUE"
    /\ pc["main"] = "shifted"
    /\ "main" \in holds
    /\ exited' = "pthread_error: Error acquiring lock"
    /\ UNCHANGED <<feat, deadline, spurious, pvars, jvars, pc, msg, wtime, cond_result, qvars, iovars>>

\* vgetcs: lock(&char_wait_mutex); is_waiting = TRUE; wait(...) releases it.
VgetcsWait ==
    /\ Running
    /\ pc["bg"] = "top"
    /\ is_waiting' = TRUE
    /\ cwsig' = FALSE
    /\ pc' = [pc EXCEPT !["bg"] = "cw_wait"]
    /\ UNCHANGED <<feat, deadline, spurious, pvars, jvars, msg, wtime, exited, cond_result, qvars, io_mutex, holds,
                   is_polling, cur_len, read_len, go_signals, ret, calls>>

\* vgetcs: wait returns (notified or spuriously); is_waiting = FALSE;
\* is_polling = TRUE; unlock(&char_wait_mutex).
VgetcsWake ==
    /\ Running
    /\ feat = "MESSAGEQUEUE"
    /\ pc["bg"] = "cw_wait"
    /\ cwsig \/ SpuriousWakeup
    /\ is_waiting' = FALSE
    /\ is_polling' = TRUE
    /\ cwsig' = FALSE
    /\ pc' = [pc EXCEPT !["bg"] = "lock_io"]
    /\ UNCHANGED <<feat, deadline, spurious, pvars, jvars, msg, wtime, exited, cond_result, qvars, io_mutex, holds,
                   cur_len, read_len, go_signals, ret, calls>>

\* vgetcs: cur_len = ui_inchar(cur_buf, cur_maxlen, 100, cur_tb_change_cnt);
\* if (cur_len > 0) { is_polling = FALSE; avail = TRUE; queue_push(...) up to
\* its lock }.
VgetcsUiInchar ==
    /\ Running
    /\ feat = "MESSAGEQUEUE"
    /\ pc["bg"] = "ui_inchar"
    /\ \E len \in InLen :
        /\ cur_len' = len
        /\ IF len > 0
           THEN /\ nextid < MaxEvents
                /\ is_polling' = FALSE
                /\ PushAlloc("bg", "UserInput", "push")
                /\ read_len' = read_len \cup {[data |-> nextid + 1, len |-> len]}
           ELSE /\ pc' = [pc EXCEPT !["bg"] = "unlock"]
                /\ UNCHANGED <<is_polling, heap, allocated, msg, nextid, read_len>>
    /\ UNCHANGED <<feat, deadline, spurious, pvars, jvars, wtime, exited, cond_result, message_queue, qsig, pushed, popped,
                   io_mutex, holds, is_waiting, cwsig, go_signals, ret, calls>>

NextMsg ==
    \/ MsgIncharCall
    \/ MainUiInchar
    \/ CharWaitSpin
    \/ CharWaitNotify
    \/ ShiftBegin
    \/ ShiftWake
    \/ ShiftTimeout
    \/ MsgLockIo
    \/ MsgRelockIo
    \/ HostPushAlloc
    \/ HostPush
    \/ VgetcsWait
    \/ VgetcsWake
    \/ BgLockIo
    \/ VgetcsUiInchar
    \/ BgPush
    \/ BgUnlockIo

SpecMsg == InitMsg /\ [][NextMsg]_vars

\* ------------------------------- SpecMsgDrained: msg_inchar, later on
\* message_queue.c after three msg_inchar calls: the first timed out, each
\* of the other two returned a UserInput event, and the two events were in
\* the queue together, so that queue_push set tail to the second, at some
\* address a.  queue_shift has emptied the queue and left tail as it was,
\* both nodes were passed to vim_free, and vgetcs, notified by the third
\* call, is on its way to its read loop.  The histories and the counters
\* nextid, calls and go_signals are counted from this state on.
InitMsgDrained ==
    /\ spurious = FALSE
    /\ deadline = NoDeadline
    /\ feat = "MESSAGEQUEUE"
    /\ heap = [a \in 1 .. MaxCells |-> FreeCell]
    /\ allocated = {}
    /\ \E a \in 1 .. MaxCells : message_queue = [head |-> NULL, tail |-> a]
    /\ msg = [t \in Threads |-> NULL]
    /\ wtime = -1
    /\ qsig = FALSE
    /\ cwsig = FALSE
    /\ is_waiting = FALSE
    /\ is_polling = TRUE
    /\ cur_len \in InLen \ {0}
    /\ ret = cur_len
    /\ read_len = {}
    /\ exited = ""
    /\ cond_result = ""
    /\ pushed = <<>>
    /\ popped = <<>>
    /\ nextid = 0
    /\ calls = 0
    /\ go_signals = 0
    /\ InitJobTable
    /\ p_ut = 0
    /\ pc = [t \in Threads |-> CASE t = "main" -> "vim" [] t = "bg" -> "lock_io" [] OTHER -> "off"]
    /\ io_mutex = 1
    /\ holds = {"main"}

SpecMsgDrained == InitMsgDrained /\ [][NextMsg]_vars

\* ---------------------------------------------- event_loop.c: ev_inchar
InitEv ==
    /\ InitCommon
    /\ heap = [a \in 1 .. MaxCells |-> FreeCell]
    /\ feat = "EVENT_LOOP"
    /\ pc = [t \in Threads |-> CASE t = "main" -> "vim" [] t = "bg" -> "lock_io" [] OTHER -> "off"]
    /\ io_mutex = 1
    /\ holds = {"main"}

\* ev_inchar(buf, maxlen, wtime, tb_change_cnt) up to unlock(&io_mutex).
EvIncharCall ==
    /\ Running
    /\ feat = "EVENT_LOOP"
    /\ pc["main"] = "vim"
    /\ \E w \in WaitMs \cup {0} :
        /\ wtime' = w
        /\ IF w = 0
           THEN /\ pc' = [pc EXCEPT !["main"] = "ui_inchar"]
                /\ UNCHANGED <<io_mutex, holds, calls>>
           ELSE /\ calls < MaxCalls
                /\ calls' = calls + 1
                /\ UnlockIo("main")
                /\ pc' = [pc EXCEPT !["main"] = "shift"]
    /\ UNCHANGED <<feat, deadline, spurious, pvars, jvars, msg, exited, cond_result, qvars, is_waiting, is_polling, cwsig,
                   cur_len, read_len, go_signals, ret>>

\* ev_inchar after queue_shift: lock(&io_mutex); lock(&char_wait_mutex);
\* cond_notify(&char_wait_cond); unlock(&char_wait_mutex); then return 0,
\* or cur_len for a UserInput event.
EvLockIo ==
    /\ Running
    /\ feat = "EVENT_LOOP"
    /\ pc["main"] = "shifted"
    /\ LockIo("main")
    /\ go_signals' = go_signals + 1
    /\ cwsig' = IF pc["bg"] = "cw_wait" THEN TRUE ELSE cwsig
    /\ ret' = IF msg["main"] # NULL /\ heap[msg["main"]].type = "UserInput" THEN cur_len ELSE 0
    /\ allocated' = allocated \ {msg["main"]}
    /\ heap' = Free(heap, msg["main"])
    /\ msg' = [msg EXCEPT !["main"] = NULL]
    /\ pc' = [pc EXCEPT !["main"] = "vim"]
    /\ wtime' = -1
    /\ cond_result' = ""
    /\ UNCHANGED <<feat, deadline, spurious, pvars, jvars, exited, message_queue, qsig, pushed, popped, nextid,
                   is_waiting, is_polling, cur_len, read_len, calls>>

\* inchar_loop: cur_len = ui_inchar(cur_buf, cur_maxlen, 100, ...);
\* if (cur_len > 0) break, on to queue_push up to its lock; else
\* unlock(&io_mutex) comes next.
EvUiInchar ==
    /\ Running
    /\ feat = "EVENT_LOOP"
    /\ pc["bg"] = "ui_inchar"
    /\ \E len \in InLen :
        /\ cur_len' = len
        /\ IF len > 0
           THEN /\ nextid < MaxEvents
                /\ PushAlloc("bg", "UserInput", "push")
                /\ read_len' = read_len \cup {[data |-> nextid + 1, len |-> len]}
           ELSE /\ pc' = [pc EXCEPT !["bg"] = "unlock"]
                /\ UNCHANGED <<heap, allocated, msg, nextid, read_len>>
    /\ UNCHANGED <<feat, deadline, spurious, pvars, jvars, wtime, exited, cond_result, message_queue, qsig, pushed, popped,
                   io_mutex, holds, is_waiting, is_polling, cwsig, go_signals, ret, calls>>

\* inchar_loop: lock(&char_wait_mutex); unlock(&io_mutex);
\* cond_wait(&char_wait_cond, &char_wait_mutex) releases char_wait_mutex.
EvBgWait ==
    /\ Running
    /\ pc["bg"] = "ev_wait"
    /\ UnlockIo("bg")
    /\ cwsig' = FALSE
    /\ pc' = [pc EXCEPT !["bg"] = "cw_wait"]
    /\ UNCHANGED <<feat, deadline, spurious, pvars, jvars, msg, wtime, exited, cond_result, qvars, is_waiting, is_polling,
                   cur_len, read_len, go_signals, ret, calls>>

\* inchar_loop: cond_wait returns (notified or spuriously);
\* unlock(&char_wait_mutex); next iteration.
EvBgWake ==
    /\ Running
    /\ feat = "EVENT_LOOP"
    /\ pc["bg"] = "cw_wait"
    /\ cwsig \/ SpuriousWakeup
    /\ cwsig' = FALSE
    /\ pc' = [pc EXCEPT !["bg"] = "lock_io"]
    /\ UNCHANGED <<feat, deadline, spurious, pvars, jvars, msg, wtime, exited, cond_result, qvars, io_mutex, holds,
                   is_waiting, is_polling, cur_len, read_len, go_signals, ret, calls>>

NextEv ==
    \/ EvIncharCall
    \/ MainUiInchar
    \/ ShiftBegin
    \/ ShiftWake
    \/ ShiftTimeout
    \/ EvLockIo
    \/ HostPushAlloc
    \/ HostPush
    \/ BgLockIo
    \/ EvUiInchar
    \/ BgPush
    \/ EvBgWait
    \/ EvBgWake
    \/ BgUnlockIo

SpecEv == InitEv /\ [][NextEv]_vars

\* Either build of the input bridge.
InitBridge == InitMsg \/ InitEv

NextBridge == NextMsg \/ NextEv

SpecBridge == InitBridge /\ [][NextBridge]_vars

\* ================================================================ job.c
Slots == 1 .. MAX_RUNNING_JOBS

\* Values job_start / job_stop / job_write are called with as job_id.
JobIds == 0 .. MAX_RUNNING_JOBS + 1

\* The data passed to job_write; len is its length.
Payloads == {<<1, 2>>, <<3>>}

\* What an int of the stack frame of job_start holds when nothing was stored
\* in it: any number, here a standard descriptor or the number of a pipe end.
StackGarbage == {0, 4}

\* unsigned int stdout_buf_pos, stderr_buf_pos: a cursor is held as its 32
\* bit pattern read as a signed number (UINT_MAX is -1), which addition and
\* subtraction keep; ULess is < on the unsigned values.
ULess(a, b) == IF (a < 0) = (b < 0) THEN a < b ELSE b < 0

Lowest(S) == CHOOSE x \in S : \A y \in S : x <= y

FreeFds(open) == (0 .. MaxFd) \ open

\* close(fd)
close(open, fd) == open \ {fd}

\* pipe(fds): on success the two lowest free descriptors; on failure (no two
\* descriptors left, or the system file table is full) the array is left as
\* it was, which in job_start is uninitialised.
pipe(open, f) ==
    LET free == FreeFds(open)
        r == Lowest(free)
        w == Lowest(free \ {r})
        ok == IF Cardinality(free) >= 2
              THEN {[r |-> r, w |-> w, open |-> open \cup {r, w}, failed |-> FALSE, n |-> f]}
              ELSE {}
        err == IF Cardinality(free) < 2 \/ f < MaxOps
               THEN {[r |-> g[1], w |-> g[2], open |-> open, failed |-> TRUE,
                      n |-> IF Cardinality(free) < 2 THEN f ELSE f + 1] :
                         g \in StackGarbage \X StackGarbage}
               ELSE {}
    IN ok \cup err

\* fork() in the parent: the pid of the new child, or -1.  A child whose
\* execvp fails keeps running the code of the parent.
fork(f) ==
    {[pid |-> nextpid + 1, failed |-> "", n |-> f]}
    \cup (IF f < MaxOps
          THEN {[pid |-> nextpid + 1, failed |-> "exec", n |-> f + 1],
                [pid |-> -1, failed |-> "fork", n |-> f + 1]}
          ELSE {})

\* JOB_CHECK: TRUE when the macro returns -1.
JOB_CHECK(job_id) ==
    job_id <= 0 \/ job_id > MAX_RUNNING_JOBS \/ job_table[job_id] = NoJob

\* IS_ALIVE(job): kill(job->pid, 0) != -1.  With pid -1 the call addresses
\* every process the user may signal, and succeeds.
IS_ALIVE(job) == job.pid = -1 \/ job.pid \in alive_pids

Occupied == {i \in Slots : job_table[i] # NoJob}

\* ---------------------------------------------------------- job_start
\* The slot search with the last slot taken whenever some slot is free.
FreeSlot_Last(occupied) == MAX_RUNNING_JOBS

\* for (i = 0; i < MAX_RUNNING_JOBS; i++) if (job_table[i] == NULL) break;
\* with the slots counted from 1.
FreeSlot(occupied) == Lowest(Slots \ occupied)

\* The job as job_start puts it in the table after its three pipe calls:
\* job->in = in[1], job->out = out[0], job->err = err[0].  The job owns the
\* ends that a pipe call which succeeded has made.
Started(i, pid, pin, pout, perr) ==
    [NewJob(i, pid, pin.w, pout.r, perr.r) EXCEPT
        !.own = (IF pin.failed THEN {} ELSE {pin.w})
                \cup (IF pout.failed THEN {} ELSE {pout.r})
                \cup (IF perr.failed THEN {} ELSE {perr.r})]

\* job_start, job_stop and job_write are called from Vim script: from a
\* command or an autocommand, not between jobs_poll handing K_JOB_ACTIVITY to
\* the host and the host calling job_activity_autocmds for it.
job_start ==
    /\ Running
    /\ job_key = ""
    /\ ops < MaxOps
    /\ initialized' = TRUE
    /\ IF Occupied = Slots
       THEN /\ job_ret' = [failed |-> "", val |-> 0]
            /\ ops' = ops + 1
            /\ UNCHANGED <<job_table, job_count, open_fds, alive_pids, nextpid, exited>>
       ELSE LET i == FreeSlot(Occupied) IN
            \/ \* alloc returns NULL, and job->pid = fork() stores through it
               /\ ops + 1 < MaxOps
               /\ ops' = ops + 2
               /\ exited' = "fault: job->pid with job == NULL"
               /\ UNCHANGED <<job_table, job_count, open_fds, alive_pids, nextpid, job_ret>>
            \/ \E pin \in pipe(open_fds, ops + 1) :
               \E pout \in pipe(pin.open, pin.n) :
               \E perr \in pipe(pout.open, pout.n) :
               \E child \in fork(perr.n) :
                  /\ open_fds' = close(close(close(perr.open, pin.r), pout.w), perr.w)
                  /\ job_table' = [job_table EXCEPT ![i] = Started(i, child.pid, pin, pout, perr)]
                  /\ job_count' = job_count + 1
                  /\ alive_pids' = IF child.pid > 0 THEN alive_pids \cup {child.pid} ELSE alive_pids
                  /\ nextpid' = IF child.pid > 0 THEN child.pid ELSE nextpid
                  /\ ops' = child.n
                  /\ job_ret' = [failed |-> IF pin.failed \/ pout.failed \/ perr.failed
                                            THEN "pipe" ELSE child.failed,
                                 val |-> i]
                  /\ UNCHANGED exited
    /\ job_data' = <<>>
    /\ UNCHANGED cleanup
    /\ UNCHANGED <<feat, deadline, spurious, pvars, pc, msg, wtime, cond_result, qvars, iovars, job_key>>

\* ----------------------------------------------------------- job_stop
job_stop ==
    /\ Running
    /\ job_key = ""
    /\ ops < MaxOps
    /\ ops' = ops + 1
    /\ \E job_id \in JobIds :
          IF JOB_CHECK(job_id)
          THEN UNCHANGED job_table
          ELSE job_table' = [job_table EXCEPT ![job_id].stopped = TRUE]
    /\ UNCHANGED <<feat, deadline, spurious, pvars, pc, msg, wtime, exited, cond_result, qvars, iovars,
                   job_count, initialized, open_fds, alive_pids, nextpid, job_key, job_ret>>
    /\ job_data' = <<>>
    /\ UNCHANGED cleanup

\* ---------------------------------------------------------- job_write
\* The chunk job_write appends: data copied, len, pos = 0.
NewChunk(data) == [data |-> data, len |-> Len(data), pos |-> 0]

job_write ==
    /\ Running
    /\ job_key = ""
    /\ ops < MaxOps
    /\ \E job_id \in JobIds, data \in Payloads :
          IF JOB_CHECK(job_id)
          THEN /\ ops' = ops + 1
               /\ UNCHANGED job_table
          ELSE \/ \* one of the two alloc calls returns NULL: return 0
                  /\ ops + 1 < MaxOps
                  /\ ops' = ops + 2
                  /\ UNCHANGED job_table
               \/ /\ job_table' = [job_table EXCEPT
                        ![job_id].stdin = Append(@, NewChunk(data)),
                        ![job_id].queued = @ \o data]
                  /\ ops' = ops + 1
    /\ UNCHANGED <<feat, deadline, spurious, pvars, pc, msg, wtime, exited, cond_result, qvars, iovars,
                   job_count, initialized, open_fds, alive_pids, nextpid, job_key, job_ret>>
    /\ job_data' = <<>>
    /\ UNCHANGED cleanup

\* ---------------------------------------------------------- jobs_poll
\* job->kill_timeout--.  The code tests the countdown against KILL_TIMEOUT
\* and against 0 only, and it runs on for as long as the job is in the
\* table: the values below -MaxOvertime are all held as -MaxOvertime.
Countdown(kill_timeout) ==
    IF kill_timeout > -MaxOvertime THEN kill_timeout - 1 ELSE kill_timeout

\* StopStep with the countdown decremented before the test instead of after.
StopStep_PreDecrement(job) ==
    [job EXCEPT
        !.kill_timeout = Countdown(@),
        !.own = IF job.kill_timeout - 1 = KILL_TIMEOUT THEN @ \ {job.in} ELSE @,
        !.log = IF job.kill_timeout - 1 = KILL_TIMEOUT
                THEN @ \o <<"close(in)", "SIGTERM">>
                ELSE IF job.kill_timeout - 1 = 0
                THEN Append(@, "SIGKILL")
                ELSE @]

\* First loop, a stopped job: if (job->kill_timeout-- == KILL_TIMEOUT) close
\* stdin and send SIGTERM, else if (job->kill_timeout == 0) send SIGKILL.
StopStep(job) ==
    [job EXCEPT
        !.kill_timeout = Countdown(@),
        !.own = IF job.kill_timeout = KILL_TIMEOUT THEN @ \ {job.in} ELSE @,
        !.log = IF job.kill_timeout = KILL_TIMEOUT
                THEN @ \o <<"close(in)", "SIGTERM">>
                ELSE IF job.kill_timeout - 1 = 0
                THEN Append(@, "SIGKILL")
                ELSE @]

\* The descriptors the first loop closes.
PollClosed ==
    {job_table[i].in : i \in {s \in Occupied :
        job_table[s].stopped /\ job_table[s].kill_timeout = KILL_TIMEOUT}}

\* The descriptors the first loop puts in rfds and wfds.
PollReadSet ==
    {job_table[i].out : i \in {s \in Occupied :
        ~job_table[s].stopped /\ ULess(job_table[s].stdout_buf_pos, BUF_SIZE)}}
    \cup {job_table[i].err : i \in {s \in Occupied :
        ~job_table[s].stopped /\ ULess(job_table[s].stderr_buf_pos, BUF_SIZE)}}

PollWriteSet ==
    {job_table[i].in : i \in {s \in Occupied :
        ~job_table[s].stopped /\ job_table[s].stdin # <<>>}}

\* First loop, a job that is not stopped: job->in is put in wfds if
\* stdin_head != NULL, job->out / job->err in rfds if the cursor is below
\* BUF_SIZE.  An fd_set holds descriptor numbers.  bp records: a stream with
\* a full buffer that the cycle kept out of rfds ("held"), a stream with a
\* full buffer whose number is in rfds all the same, and a stdin whose number
\* is in wfds while the job has nothing pending.
Registered(job) ==
    LET full_out == ~ULess(job.stdout_buf_pos, BUF_SIZE)
        full_err == ~ULess(job.stderr_buf_pos, BUF_SIZE)
    IN [job EXCEPT !.bp = @
          \cup (IF full_out /\ job.out \notin PollReadSet THEN {"out held"} ELSE {})
          \cup (IF full_err /\ job.err \notin PollReadSet THEN {"err held"} ELSE {})
          \cup (IF full_out /\ job.out \in PollReadSet THEN {"out registered full"} ELSE {})
          \cup (IF full_err /\ job.err \in PollReadSet THEN {"err registered full"} ELSE {})
          \cup (IF job.stdin = <<>> /\ job.in \in PollWriteSet
                THEN {"in registered empty"} ELSE {})]

\* bp after the test FD_ISSET(fd, &rfds) of the second loop on a stream with
\* the cursor pos: a read() issued with no room is recorded.
ReadIssued(job, stream, fd, pos, rfds) ==
    IF fd \in rfds /\ ~ULess(pos, BUF_SIZE) THEN job.bp \cup {stream \o " read full"}
    ELSE job.bp

\* count = read(fd, buf + pos, BUF_SIZE - pos); pos += count.  read gives
\* 0 at end of file, a count up to the room it was given (the largest is
\* followed), or -1 (a size_t of all ones, which added to the unsigned
\* cursor takes one off it).
ReadInto(pos, f) ==
    LET room == BUF_SIZE - pos
        counts == {c \in {0, room} : c >= 0 /\ ~ULess(room, c)}
    IN {[pos |-> pos + c, n |-> f] : c \in counts}
       \cup (IF f < MaxOps THEN {[pos |-> pos - 1, n |-> f + 1]} ELSE {})

\* The count bytes write(job->in, chunk->data, to_write) takes: they start
\* at chunk->data, whatever chunk->pos is.  Bytes past the end of the
\* allocation are indeterminate.
WriteBytes(chunk, count) ==
    [k \in 1 .. count |-> IF k <= Len(chunk.data) THEN chunk.data[k] ELSE 0]

\* The main thread inside a write() on job->in that does not return.
Suspended == "suspended in write(job->in)"

\* What write(job->in, chunk->data, to_write) can do when the pipe has room
\* for at least min_room bytes: job->in is the end of a pipe as pipe() made
\* it, without O_NONBLOCK, so a write of more bytes than the pipe has room
\* for waits until the child has read.
MayBlock(to_write, min_room) == to_write > min_room

\* while (job->stdin_head != NULL): write the head chunk; on a short count
\* advance pos by it and break, else free the chunk and go on.  select has
\* found room in the pipe before the first write, and nobody has before the
\* later ones.
RECURSIVE WriteLoop(_, _, _)
WriteLoop(job, f, min_room) ==
    IF job.stdin = <<>> THEN {[job |-> job, n |-> f, blocked |-> FALSE]}
    ELSE LET chunk == Head(job.stdin)
             to_write == chunk.len - chunk.pos
             short == {[job |-> [job EXCEPT !.stdin[1].pos = @ + count,
                                            !.wrote = @ \o WriteBytes(chunk, count)],
                        n |-> f, blocked |-> FALSE] : count \in 1 .. (to_write - 1)}
             error == IF f < MaxOps
                      THEN {[job |-> [job EXCEPT !.stdin[1].pos = @ - 1, !.wfail = TRUE],
                             n |-> f + 1, blocked |-> FALSE]}
                      ELSE {}
             wait == IF MayBlock(to_write, min_room)
                     THEN {[job |-> job, n |-> f, blocked |-> TRUE]}
                     ELSE {}
             full == WriteLoop([job EXCEPT !.stdin = Tail(@),
                                           !.wrote = @ \o WriteBytes(chunk, to_write)], f, 0)
         IN short \cup error \cup wait \cup full

\* The count that read() returned, from the cursor before and after it.
ReadCount(pos, after) == IF after = pos - 1 THEN -1 ELSE after - pos

\* The counts read(job->out, ...) can return: with bytes in the pipe and
\* room in the buffer it returns some of them, or -1, and not 0.
ReadCounts(job) ==
    IF job.out_pipe > 0 /\ job.stdout_buf_pos # BUF_SIZE
    THEN {-1, BUF_SIZE - job.stdout_buf_pos}
    ELSE {-1, 0, BUF_SIZE - job.stdout_buf_pos}

\* What a read() that returned count leaves of the bytes in the pipe.
LeftInPipe(in_pipe, count) ==
    IF count <= 0 THEN in_pipe
    ELSE IF count >= in_pipe THEN 0 ELSE in_pipe - count

\* select reports a registered descriptor that has bytes to read.
DataReady ==
    {job_table[i].out : i \in {s \in Occupied : job_table[s].out_pipe > 0}} \cap PollReadSet

\* Second loop, one job: read stdout, read stderr, write stdin, each if its
\* descriptor number is set in what select left in rfds / wfds.
PollJob(job, f, rfds, wfds) ==
    LET outs == IF job.out \in rfds
                THEN {o \in ReadInto(job.stdout_buf_pos, f) :
                         ReadCount(job.stdout_buf_pos, o.pos) \in ReadCounts(job)}
                ELSE {[pos |-> job.stdout_buf_pos, n |-> f]}
    IN UNION {
         LET errs == IF job.err \in rfds THEN ReadInto(job.stderr_buf_pos, o.n)
                     ELSE {[pos |-> job.stderr_buf_pos, n |-> o.n]}
         IN UNION {
              LET j == [job EXCEPT
                           !.stdout_buf_pos = o.pos, !.stderr_buf_pos = e.pos,
                           !.out_pipe = LeftInPipe(@, ReadCount(job.stdout_buf_pos, o.pos)),
                           !.bp = ReadIssued(job, "out", job.out, job.stdout_buf_pos, rfds)
                                  \cup ReadIssued(job, "err", job.err, job.stderr_buf_pos, rfds)]
              IN IF job.in \in wfds THEN WriteLoop(j, e.n, 1)
                 ELSE {[job |-> j, n |-> e.n, blocked |-> FALSE]}
              : e \in errs}
         : o \in outs}

\* Second loop over slots i .. MAX_RUNNING_JOBS; done holds the slots before
\* i.  The loop gets no further than a write that does not return.
RECURSIVE PollIO(_, _, _, _, _, _)
PollIO(done, table, i, f, rfds, wfds) ==
    IF i > MAX_RUNNING_JOBS THEN {[table |-> done, n |-> f, blocked |-> FALSE]}
    ELSE IF table[i] = NoJob THEN PollIO(Append(done, NoJob), table, i + 1, f, rfds, wfds)
    ELSE UNION {IF r.blocked
                THEN {[table |-> Append(done, r.job) \o SubSeq(table, i + 1, MAX_RUNNING_JOBS),
                       n |-> r.n, blocked |-> TRUE]}
                ELSE PollIO(Append(done, r.job), table, i + 1, r.n, rfds, wfds) :
                   r \in PollJob(table[i], f, rfds, wfds)}

jobs_poll ==
    /\ Running
    /\ job_key = ""
    /\ IF job_count = 0
       THEN UNCHANGED <<job_table, open_fds, job_key, ops, exited>>
       ELSE LET table1 == [i \in Slots |->
                              IF job_table[i] = NoJob THEN NoJob
                              ELSE IF job_table[i].stopped THEN StopStep(job_table[i])
                              ELSE Registered(job_table[i])]
                open1 == open_fds \ PollClosed
            IN /\ open_fds' = open1
               /\ IF ~((PollReadSet \cup PollWriteSet) \subseteq open1)
                  THEN \* select fails with EBADF: return FALSE
                       /\ job_table' = table1
                       /\ UNCHANGED <<job_key, ops, exited>>
                  ELSE \/ \* select fails with EINTR: return FALSE
                          /\ ops < MaxOps
                          /\ ops' = ops + 1
                          /\ job_table' = table1
                          /\ UNCHANGED <<job_key, exited>>
                       \/ \E rfds \in {s \in SUBSET PollReadSet : DataReady \subseteq s},
                             wfds \in SUBSET PollWriteSet :
                            IF rfds = {} /\ wfds = {}
                            THEN \* res == 0: return FALSE
                                 /\ job_table' = table1
                                 /\ UNCHANGED <<job_key, ops, exited>>
                            ELSE \E r \in PollIO(<<>>, table1, 1, ops, rfds, wfds) :
                                 /\ job_table' = r.table
                                 /\ ops' = r.n
                                 /\ IF r.blocked
                                    THEN exited' = Suspended /\ UNCHANGED job_key
                                    ELSE job_key' = "K_JOB_ACTIVITY" /\ UNCHANGED exited
    /\ UNCHANGED <<feat, deadline, spurious, pc, msg, wtime, cond_result, qvars, iovars,
                   job_count, initialized, alive_pids, nextpid, job_ret>>
    /\ job_data' = <<>>
    /\ UNCHANGED cleanup

\* ---------------------------------------------- job_activity_autocmds
\* Called by the host after jobs_poll returned TRUE (K_JOB_ACTIVITY).
JOB_FREE(table, i) == [table EXCEPT ![i] = NoJob]

\* The test with the process left out of it.
Ignored_NoData(job) == job.stdout_buf_pos = 0 /\ job.stderr_buf_pos = 0

\* if (alive && job->stdout_buf_pos == 0 && job->stderr_buf_pos == 0) continue;
Ignored(job) ==
    /\ IS_ALIVE(job)
    /\ job.stdout_buf_pos = 0
    /\ job.stderr_buf_pos = 0

\* The lists made in one call, in slot order.  A list holds job->id and the
\* two buffers up to their cursors as they are when the list is made, which
\* is before the cursors are reset and before JOB_FREE; of a list the id is
\* kept.
RECURSIVE JobData(_, _)
JobData(i, notified) ==
    IF i > MAX_RUNNING_JOBS THEN <<>>
    ELSE (IF i \in notified THEN <<job_table[i].id>> ELSE <<>>)
         \o JobData(i + 1, notified)

job_activity_autocmds ==
    /\ Running
    /\ job_key = "K_JOB_ACTIVITY"
    /\ job_key' = ""
    /\ LET skipped == {i \in Occupied : Ignored(job_table[i])}
           freed == {i \in Occupied \ skipped : ~IS_ALIVE(job_table[i])}
       IN /\ job_data' = JobData(1, Occupied \ skipped)
          /\ UNCHANGED cleanup
          /\ job_table' = [i \in Slots |->
                 IF i \in freed THEN JOB_FREE(job_table, i)[i]
                 ELSE IF i \in Occupied \ skipped
                 THEN [job_table[i] EXCEPT !.stdout_buf_pos = 0, !.stderr_buf_pos = 0]
                 ELSE job_table[i]]
          /\ open_fds' = open_fds \ UNION {{job_table[i].in, job_table[i].out, job_table[i].err} :
                                              i \in freed}
    /\ UNCHANGED <<feat, deadline, spurious, pvars, pc, msg, wtime, exited, cond_result, qvars, iovars,
                   job_count, initialized, alive_pids, nextpid, job_ret, ops>>

\* ------------------------------------------------------ the children
\* A child process exits: by itself, or on a signal.  SIGCHLD is ignored,
\* so nothing of it remains and kill(pid, 0) fails from then on.
ChildExit(p) ==
    /\ Running
    /\ p \in alive_pids
    /\ alive_pids' = alive_pids \ {p}
    /\ UNCHANGED <<feat, deadline, spurious, pvars, pc, msg, wtime, exited, cond_result, qvars, iovars,
                   job_table, job_count, initialized, open_fds, nextpid, job_key, job_ret, ops>>
    /\ job_data' = <<>>
    /\ UNCHANGED cleanup

\* The child of a job writes n bytes to its standard output, the pipe
\* behind job->out.
ChildOutput == {1, BUF_SIZE + 1}

ChildWrite(p) ==
    /\ Running
    /\ p \in alive_pids
    /\ \E i \in Occupied, n \in ChildOutput :
          /\ job_table[i].pid = p
          /\ job_table[i].out_pipe = 0
          /\ job_table' = [job_table EXCEPT ![i].out_pipe = n]
    /\ UNCHANGED <<feat, deadline, spurious, pvars, pc, msg, wtime, exited, cond_result, qvars, iovars,
                   job_count, initialized, open_fds, alive_pids, nextpid, job_key, job_ret, ops>>
    /\ job_data' = <<>>
    /\ UNCHANGED cleanup

\* --------------------------------------------------------------- SpecJob
\* In the job specifications nothing of the queue and input bridge runs.
InitNoBridge ==
    /\ feat = "JOB_CONTROL"
    /\ spurious = FALSE
    /\ deadline = NoDeadline
    /\ pc = [t \in Threads |-> "off"]
    /\ msg = [t \in Threads |-> NULL]
    /\ wtime = -1
    /\ heap = [a \in 1 .. MaxCells |-> FreeCell]
    /\ allocated = {}
    /\ message_queue = [head |-> NULL, tail |-> NULL]
    /\ qsig = FALSE
    /\ pushed = <<>>
    /\ popped = <<>>
    /\ nextid = 0
    /\ exited = ""
    /\ cond_result = ""
    /\ io_mutex = 0
    /\ holds = {}
    /\ is_waiting = FALSE
    /\ is_polling = FALSE
    /\ cwsig = FALSE
    /\ cur_len = 0
    /\ read_len = {}
    /\ go_signals = 0
    /\ ret = 0
    /\ calls = 0

InitJobHost == InitJobTable /\ InitNoBridge

\* In SpecJob the host calls jobs_poll cycle by cycle; 'updatetime' plays no part.
InitJob == InitJobHost /\ p_ut = 0

NextJob ==
    \/ job_start
    \/ job_stop
    \/ job_write
    \/ jobs_poll /\ UNCHANGED pvars
    \/ job_activity_autocmds
    \/ \E p \in alive_pids : ChildExit(p)

SpecJob == InitJob /\ [][NextJob]_vars

\* ------------------------------------------------------------ SpecJobOut
\* SpecJob with the bytes followed that the children write to standard output.
NextJobOut ==
    \/ NextJob
    \/ \E p \in alive_pids : ChildWrite(p)

SpecJobOut == InitJob /\ [][NextJobOut]_vars

\* ------------------------------------------------------- jobs_cleanup
\* One thing jobs_cleanup does: ev for the job with the id (0: for none).
Did(ev, id) == [ev |-> ev, id |-> id]

\* First loop: close(job->in); kill(job_table[i]->pid, SIGTERM); per job.
RECURSIVE AskAll(_)
AskAll(i) ==
    IF i > MAX_RUNNING_JOBS THEN <<>>
    ELSE (IF job_table[i] = NoJob THEN <<>>
          ELSE <<Did("close(in)", job_table[i].id), Did("SIGTERM", job_table[i].id)>>)
         \o AskAll(i + 1)

\* The test of the second loop with every job taken for alive.
FoundAlive_Always(job, living) == TRUE

\* if (IS_ALIVE(job)) in the second loop, living being the processes that
\* have not exited when the test is made.
FoundAlive(job, living) == job.pid = -1 \/ job.pid \in living

\* Second loop from slot i on.  kill_now is FALSE until the first job is
\* found alive; the one select of 300 ms follows that test, and survivors are
\* the processes that have not exited when it returns.
RECURSIVE ShootAll(_, _, _)
ShootAll(i, kill_now, survivors) ==
    IF i > MAX_RUNNING_JOBS THEN <<>>
    ELSE IF job_table[i] = NoJob THEN ShootAll(i + 1, kill_now, survivors)
    ELSE LET job == job_table[i]
             alive == FoundAlive(job, IF kill_now THEN survivors ELSE alive_pids)
         IN (IF alive
             THEN <<Did("alive", job.id)>>
                  \o (IF kill_now THEN <<>> ELSE <<Did("select 300 ms", 0)>>)
                  \o <<Did("SIGKILL", job.id)>>
             ELSE <<>>)
            \o <<Did("JOB_FREE", job.id)>>
            \o ShootAll(i + 1, kill_now \/ alive, survivors)

\* jobs_cleanup, called once, when the host is about to exit.  A process
\* SIGKILL was sent to is gone; a process may exit during the 300 ms.
\* JOB_FREE clears job_table[job->id - 1].
jobs_cleanup ==
    /\ Running
    /\ \E survivors \in SUBSET alive_pids :
          LET found == {i \in Occupied : FoundAlive(job_table[i], alive_pids)}
              shot == IF found = {} THEN {}
                      ELSE {Lowest(found)}
                           \cup {i \in Occupied : /\ i > Lowest(found)
                                                   /\ FoundAlive(job_table[i], survivors)}
          IN /\ cleanup' = [was |-> job_table, alive |-> alive_pids,
                            log |-> AskAll(1) \o ShootAll(1, FALSE, survivors)]
             /\ alive_pids' = (IF found = {} THEN alive_pids ELSE survivors)
                                 \ {job_table[i].pid : i \in shot}
    /\ job_table' = [i \in Slots |->
                        IF i \in {job_table[s].id : s \in Occupied} THEN NoJob ELSE job_table[i]]
    /\ open_fds' = open_fds \ UNION {{job_table[i].in, job_table[i].out, job_table[i].err} :
                                        i \in Occupied}
    /\ exited' = "jobs_cleanup"
    /\ UNCHANGED <<feat, deadline, spurious, pvars, pc, msg, wtime, cond_result, qvars, iovars,
                   job_count, initialized, nextpid, job_key, job_ret, job_data, ops>>

\* What is pending for a job's stdin plays no part in jobs_cleanup: the
\* behaviours are those without job_write calls.
NextJobExit ==
    \/ job_start
    \/ job_stop
    \/ jobs_poll /\ UNCHANGED pvars
    \/ job_activity_autocmds
    \/ \E p \in alive_pids : ChildExit(p)
    \/ jobs_cleanup

SpecJobExit == InitJob /\ [][NextJobExit]_vars

\* ----------------------------------------------------------- SpecJobHost
\* Nothing in job.c makes the host call job_activity_autocmds: it is "called
\* by other layers after we return K_JOBACTIVITY".  Here the host may also
\* let a job-activity key pass without the call, so that a later jobs_poll
\* cycle finds what the earlier one left in the buffers.
KeyIgnored ==
    /\ Running
    /\ job_key = "K_JOB_ACTIVITY"
    /\ job_key' = ""
    /\ UNCHANGED <<feat, deadline, spurious, pvars, pc, msg, wtime, exited, cond_result, qvars, iovars,
                   job_table, job_count, initialized, open_fds, alive_pids, nextpid,
                   job_ret, ops>>
    /\ job_data' = <<>>
    /\ UNCHANGED cleanup

\* A stopped job takes no part in what jobs_poll registers, and jobs_poll
\* registers each job by its own cursors: the behaviours are those without
\* job_stop calls in which the script starts its jobs first.
NextJobHost ==
    \/ ops < MaxPollOps /\ job_start
    \/ job_write
    \/ jobs_poll /\ UNCHANGED pvars
    \/ job_activity_autocmds
    \/ KeyIgnored
    \/ \E p \in alive_pids : ChildExit(p)

SpecJobHost == InitJob /\ [][NextJobHost]_vars

\* ----------------------------------------------------------- SpecJobFull
\* Number of jobs started and stopped before the behaviours of SpecJobFull.
StartedBefore == MAX_RUNNING_JOBS - 1

\* The job table and the open descriptors after k job_start calls in which
\* no system call failed, made by a process that had its three standard
\* descriptors open: job k is in slot k and its process has pid k.
RECURSIVE StartedJobs(_)
StartedJobs(k) ==
    IF k = 0 THEN [jobs |-> <<>>, open |-> {0, 1, 2}]
    ELSE LET s == StartedJobs(k - 1)
             pin == CHOOSE p \in pipe(s.open, MaxOps) : ~p.failed
             pout == CHOOSE p \in pipe(pin.open, MaxOps) : ~p.failed
             perr == CHOOSE p \in pipe(pout.open, MaxOps) : ~p.failed
         IN [jobs |-> Append(s.jobs, Started(k, k, pin, pout, perr)),
             open |-> close(close(close(perr.open, pin.r), pout.w), perr.w)]

\* A stopped job after n jobs_poll cycles.
RECURSIVE Cycled(_, _)
Cycled(job, n) == IF n = 0 THEN job ELSE Cycled(StopStep(job), n - 1)

\* The state after StartedBefore job_start calls, each followed by job_stop
\* for the id it returned, and KILL_TIMEOUT + MaxOvertime jobs_poll cycles in
\* which select returned 0: every slot but the last holds a stopped job, its
\* stdin is closed, and its process is gone after SIGTERM and SIGKILL.
InitJobFull ==
    /\ InitNoBridge
    /\ job_table = [i \in Slots |->
                       IF i <= StartedBefore
                       THEN Cycled([StartedJobs(StartedBefore).jobs[i] EXCEPT !.stopped = TRUE],
                                   KILL_TIMEOUT + MaxOvertime)
                       ELSE NoJob]
    /\ job_count = StartedBefore
    /\ initialized = TRUE
    /\ open_fds = StartedJobs(StartedBefore).open
                      \ {StartedJobs(StartedBefore).jobs[i].in : i \in 1 .. StartedBefore}
    /\ alive_pids = {}
    /\ nextpid = StartedBefore
    /\ job_key = ""
    /\ job_ret = [failed |-> "", val |-> StartedBefore]
    /\ job_data = <<>>
    /\ cleanup = NoCleanup
    /\ ops = 0
    /\ jap_pc = "host"
    /\ trig_curshold = FALSE
    /\ ellapsed = 0
    /\ p_ut = 0
    /\ jap_ret = JapRet("", 0, 0, 0)
    /\ cycles = 0
    /\ polled = FALSE

SpecJobFull == InitJobFull /\ [][NextJob]_vars

\* ------------------------------------------------- job_activity_poll
\* Values of the wtime argument of job_activity_poll.
JapWtime == {-1, 0, 100}

\* Lengths ui_inchar returns to job_activity_poll: nothing, or some input.
JapLen == {0, 2}

\* job_activity(buf) and cursorhold(buf) store a three byte special key.
job_activity == 3
cursorhold == 3

\* Entry of job_activity_poll.  With wtime >= 0: return ui_inchar(buf,
\* maxlen, wtime, tb_change_cnt).  Else trig_curshold = trigger_cursorhold(),
\* ellapsed = 0 when it is set, and the do-while loop is entered.
job_activity_poll ==
    /\ Running
    /\ jap_pc = "host"
    /\ job_key = ""
    /\ polled' = FALSE
    /\ cycles' = 0
    /\ \E w \in JapWtime :
          IF w >= 0
          THEN /\ \E len \in JapLen : jap_ret' = JapRet("ui_inchar", len, w, len)
               /\ UNCHANGED <<jap_pc, trig_curshold, ellapsed>>
          ELSE /\ \E trig \in BOOLEAN :
                    /\ trig_curshold' = trig
                    /\ ellapsed' = IF trig THEN 0 ELSE ellapsed
               /\ jap_pc' = "wait"
               /\ jap_ret' = JapRet("", 0, 0, 0)
    /\ UNCHANGED <<feat, deadline, spurious, pc, msg, wtime, exited, cond_result, qvars, iovars, jvars, p_ut>>

\* AfterUiInchar with the length not looked at.
AfterUiInchar_Return(len) == "host"

\* The test on ellapsed with > for >=.
IdleReached_Strict(e) == e > p_ut

\* if (ellapsed >= p_ut)
IdleReached(e) == e >= p_ut

\* Where the loop goes after len = ui_inchar(buf, maxlen, POLL_INTERVAL,
\* tb_change_cnt): if (len > 0) return len, else on to jobs_poll.
AfterUiInchar(len) == IF len > 0 THEN "host" ELSE "poll"

\* A return of job_activity_poll ends its locals (shown as FALSE and 0
\* outside a call).
JapReturn(from, len) ==
    /\ jap_pc' = "host"
    /\ jap_ret' = [jap_ret EXCEPT !.from = from, !.len = len]
    /\ trig_curshold' = FALSE
    /\ ellapsed' = 0

\* Top of the loop: the bounded wait for user input.
PollUiInchar(len) ==
    /\ Running
    /\ jap_pc = "wait"
    /\ cycles' = IF trig_curshold THEN cycles + 1 ELSE cycles
    /\ IF AfterUiInchar(len) = "host"
       THEN /\ jap_pc' = "host"
            /\ jap_ret' = JapRet("len", len, POLL_INTERVAL, len)
            /\ trig_curshold' = FALSE
            /\ ellapsed' = 0
       ELSE /\ jap_pc' = AfterUiInchar(len)
            /\ jap_ret' = JapRet("", 0, POLL_INTERVAL, len)
            /\ UNCHANGED <<trig_curshold, ellapsed>>
    /\ UNCHANGED <<feat, deadline, spurious, pc, msg, wtime, exited, cond_result, qvars, iovars, jvars,
                   p_ut, polled>>

\* if (jobs_poll()) return job_activity(buf); then, if trig_curshold,
\* ellapsed += POLL_INTERVAL and return cursorhold(buf) once ellapsed >= p_ut.
PollJobs ==
    /\ jap_pc = "poll"
    /\ jobs_poll
    /\ polled' = TRUE
    /\ IF exited' = Suspended
       THEN \* jobs_poll does not return
            UNCHANGED <<jap_pc, jap_ret, trig_curshold, ellapsed>>
       ELSE IF job_key' = "K_JOB_ACTIVITY"
       THEN JapReturn("job_activity", job_activity)
       ELSE IF trig_curshold
       THEN IF IdleReached(ellapsed + POLL_INTERVAL)
            THEN JapReturn("cursorhold", cursorhold)
            ELSE /\ ellapsed' = ellapsed + POLL_INTERVAL
                 /\ jap_pc' = "wait"
                 /\ UNCHANGED <<jap_ret, trig_curshold>>
       ELSE /\ jap_pc' = "wait"
            /\ UNCHANGED <<ellapsed, jap_ret, trig_curshold>>
    /\ UNCHANGED <<p_ut, cycles>>

\* --------------------------------------------------------------- SpecPoll
\* The host takes its keys from job_activity_poll, calls
\* job_activity_autocmds for K_JOB_ACTIVITY, and runs Vim script between two
\* calls, which here starts jobs.
InitPoll == InitJobHost /\ p_ut \in PUt

NextPoll ==
    \/ jap_pc = "host" /\ ops < MaxPollOps /\ job_start
    \/ job_activity_poll
    \/ \E len \in JapLen : PollUiInchar(len)
    \/ PollJobs
    \/ job_activity_autocmds
    \/ \E p \in alive_pids : ChildExit(p)

SpecPoll == InitPoll /\ [][NextPoll]_vars

\* ----------------------------------------------------------- SpecPollLive
\* The call job_activity_poll(buf, maxlen, -1, tb_change_cnt).
IndefiniteWaitCall == job_activity_poll /\ jap_pc' = "wait"

\* The main loop of the host asks for the next key again and again, with an
\* indefinite wait; the user is idle again and again (ui_inchar returns 0
\* when its POLL_INTERVAL ms have passed); a started jobs_poll call runs to
\* its return; the host handles the K_JOB_ACTIVITY key it was given.
FairPoll ==
    /\ SF_vars(IndefiniteWaitCall)
    /\ SF_vars(PollUiInchar(0))
    /\ WF_vars(PollJobs)
    /\ WF_vars(job_activity_autocmds)

\* Here Vim script stops jobs as well.
NextPollLive ==
    \/ NextPoll
    \/ jap_pc = "host" /\ job_stop

SpecPollLive == InitPoll /\ [][NextPollLive]_vars /\ FairPoll

\* ------------------------------------------------- claims on the queue
\* C1: FIFO.  The events returned by successive queue_shift calls are the
\* pushed events in push order: the popped sequence is always a prefix of
\* the pushed sequence, also after the queue was drained and refilled.
C1_FifoPrefix == IsPrefix(popped, pushed)

\* C2: exactly-once delivery.  No event is returned twice, and every pushed
\* event that was not returned yet is still linked from the queue head, so
\* that a consumer that keeps popping gets it.
C2_ExactlyOnce ==
    /\ NoDuplicates(popped)
    /\ Range(pushed) \ Range(popped) \subseteq Range(QueueContents)

\* C3: a finite-timeout queue_shift on an empty queue returns the head when
\* a push signals the condition and NULL when the deadline passes, and the
\* process keeps running: the fatal exit of pthread_error is reached only
\* when the pthread primitive reported a real error (not 0, not ETIMEDOUT).
PthreadErrorExit ==
    exited \in {timedwait_result(r) : r \in {"EINVAL", "EPERM", "0"}}

C3_TimedShiftKeepsRunning ==
    /\ (PthreadErrorExit /\ qsig) => cond_result \notin {"", "0", "ETIMEDOUT"}
    /\ (pc["main"] = "shifted" /\ cond_result = "ETIMEDOUT") => msg["main"] = NULL

\* C4: queue_shift with ms < 0 returns a non-NULL event and never
\* dereferences an empty head, also after a spurious wake-up.
C4_IndefiniteShiftNonNull ==
    /\ exited # "fault: rv->next with rv == NULL"
    /\ (pc["main"] = "shifted" /\ wtime < 0) => msg["main"] # NULL

\* ---------------------------------------- claims on the input bridges
\* The input thread has left its wait and has not pushed its event yet.
BgReading == pc["bg"] \in {"lock_io", "ui_inchar", "unlock", "push"}

C5_Body ==
    feat = "MESSAGEQUEUE" =>
        /\ NumUserInput(pushed) <= go_signals
        /\ BgReading => NumUserInput(pushed) < go_signals

\* C5 without spurious wake-ups (holds): every wake-up of vgetcs is a notify.
C5_GoSignalContract_NoSpurious == ~spurious => C5_Body

\* C5: go-signal contract of message_queue.c.  vgetcs reads input only
\* after a notify of char_wait_cond by char_wait, and pushes one UserInput
\* event per wake-up: the number of UserInput events pushed never exceeds
\* the number of go-signals sent, and while the thread reads there is a
\* go-signal that no pushed UserInput event has used yet.
C5_GoSignalContract == C5_Body

\* C6: io_mutex exclusivity.  At most one thread holds io_mutex; every
\* call of ui_inchar, by either thread, is made by a thread that holds it;
\* the consumer holds it whenever msg_inchar / ev_inchar has returned.
C6_IoMutexExclusive ==
    /\ Cardinality(holds) <= 1
    /\ holds # {} => io_mutex = 1
    /\ \A t \in {"main", "bg"} : pc[t] = "ui_inchar" => t \in holds
    /\ pc["main"] \in {"vim", "host_push"} => "main" \in holds

\* Witness of C6: the consumer is back in vim, holding io_mutex, with the
\* length of a UserInput event that the input thread read and pushed.
C6_Witness ==
    /\ pc["main"] = "vim"
    /\ holds = {"main"}
    /\ ret > 0
    /\ NumUserInput(popped) > 0

\* C7: no double lock in msg_inchar.  The consumer never calls
\* lock(&io_mutex) while it holds io_mutex and never waits in queue_shift
\* while holding it, whatever messages are queued.  Stated for the
\* behaviours without spurious wake-ups, where it already fails.
C7_NoDoubleLock ==
    (feat = "MESSAGEQUEUE" /\ ~spurious) =>
        /\ ~(pc["main"] = "shifted" /\ "main" \in holds)
        /\ ~(pc["main"] \in {"shift", "q_wait", "q_timedwait"} /\ "main" \in holds)

\* ------------------------------------------ claims on the job supervisor
\* C8: a spawn failure is reported and leaves no trace.  When pipe, fork or
\* execvp failed in a job_start call, the call returned 0; and no job with
\* the pid -1 of a failed fork is ever in job_table.
C8_SpawnFailureNoTrace ==
    /\ job_ret.failed # "" => job_ret.val = 0
    /\ \A i \in Occupied : job_table[i].pid # -1

\* The bytes of a job's pending chunks that are still to be written: each
\* chunk from its read cursor pos on.
RECURSIVE PendingBytes(_)
PendingBytes(chunks) ==
    IF chunks = <<>> THEN <<>>
    ELSE LET c == Head(chunks)
         IN SubSeq(c.data, c.pos + 1, c.len) \o PendingBytes(Tail(chunks))

\* C9: partial-write resumption.  As long as no write has failed (and the
\* last job_start went through without a failure), the bytes written to a job's stdin so far, followed by what its pending
\* chunks still hold from their read cursors on, are the bytes passed to
\* job_write in call order: every byte is written once, in order, and a
\* chunk leaves the list only when all of it was written.
C9_PartialWriteResumption ==
    \A i \in Occupied :
        (job_ret.failed = "" /\ ~job_table[i].wfail) =>
            job_table[i].wrote \o PendingBytes(job_table[i].stdin) = job_table[i].queued

\* C10: graduated termination.  For every job in the table: nothing is
\* closed or sent before the first jobs_poll cycle after job_stop (while
\* kill_timeout is KILL_TIMEOUT, so not by job_stop); stdin is closed and
\* SIGTERM sent once, in the cycle that finds kill_timeout = KILL_TIMEOUT;
\* SIGKILL is sent once, after it, in the cycle that brings kill_timeout
\* to 0; and the countdown only runs for a stopped job and only downwards.
C10_GraduatedTermination ==
    \A i \in Occupied :
        LET job == job_table[i] IN
        /\ job.kill_timeout <= KILL_TIMEOUT
        /\ ~job.stopped => job.kill_timeout = KILL_TIMEOUT
        /\ job.kill_timeout = KILL_TIMEOUT => job.log = <<>>
        /\ (0 < job.kill_timeout /\ job.kill_timeout < KILL_TIMEOUT)
              => job.log = <<"close(in)", "SIGTERM">>
        /\ job.kill_timeout <= 0 => job.log = <<"close(in)", "SIGTERM", "SIGKILL">>

\* Witness of C10: a job whose process has not exited was stopped, and the
\* cycles since have run its countdown past 0: SIGTERM and SIGKILL are sent.
C10_Witness ==
    \E i \in Occupied :
        /\ job_table[i].stopped
        /\ job_table[i].pid \in alive_pids
        /\ job_table[i].kill_timeout < 0
        /\ job_table[i].log = <<"close(in)", "SIGTERM", "SIGKILL">>

\* C11: a stopped job is eventually released.  Whenever slot i holds a
\* stopped job whose process has exited, the indefinite-wait cycles of
\* job_activity_poll, with job_activity_autocmds called for every
\* K_JOB_ACTIVITY key, lead to a state where slot i is empty.
C11_StoppedJobReleased ==
    \A i \in Slots :
        (Running /\ job_table[i] # NoJob /\ job_table[i].stopped /\ ~IS_ALIVE(job_table[i]))
            ~> (~Running \/ job_table[i] = NoJob)

\* C12: backpressure.  For every job in the table: no jobs_poll cycle has
\* had the number of its stdout (stderr) descriptor in the read set while
\* stdout_buf_pos (stderr_buf_pos) was not below BUF_SIZE, none has issued a
\* read() on a stream whose buffer was full, and none has had the number of
\* its stdin descriptor in the write set while nothing was pending.
C12_Backpressure ==
    \A i \in Occupied : job_table[i].bp \subseteq {"out held", "err held"}

\* C13: job ids.  In every step: a job in slot i has the id i (slots and
\* ids both counted from 1); a slot that holds a job before and after the
\* step holds the same job, so an id is given out again only after the slot
\* was cleared; a job that appears in a free slot i is the one whose id i
\* job_start returns; and a job_start call that finds every slot occupied
\* returns 0 and leaves the table, job_count, the descriptors and the
\* processes as they were.
C13_JobIds ==
    [][/\ \A i \in Slots :
            /\ job_table'[i] # NoJob => job_table'[i].id = i
            /\ (job_table[i] # NoJob /\ job_table'[i] # NoJob)
                  => job_table'[i].pid = job_table[i].pid
            /\ (job_table[i] = NoJob /\ job_table'[i] # NoJob) => job_ret'.val = i
       /\ (Occupied = Slots /\ job_ret' # job_ret)
             => /\ job_ret'.val = 0
                /\ UNCHANGED <<job_table, job_count, open_fds, alive_pids, nextpid>>
      ]_vars

\* Witness of C13: every slot is occupied and the last job_start call
\* returned 0.
C13_Witness ==
    /\ Running
    /\ Occupied = Slots
    /\ job_ret.val = 0

CleanupAt(ev, id) == {k \in 1 .. Len(cleanup.log) : cleanup.log[k] = Did(ev, id)}

C16_PollNeverBlocks == job_ret.failed = "" => exited # Suspended

\* C17: PollLoop results.  A job_activity_poll call with wtime >= 0 returns
\* what its one ui_inchar call with that wtime returned, and jobs_poll is
\* not called in it.  A call with wtime < 0 returns from the top of the
\* loop only with the positive length ui_inchar gave, and after jobs_poll
\* only with the job-activity key when jobs_poll returned TRUE or with the
\* cursorhold key when it returned FALSE, cursorhold triggering is on and
\* ellapsed has reached p_ut.  jobs_poll is reached only from a ui_inchar
\* call bounded by POLL_INTERVAL that gave nothing, it is the only thing in
\* a call that touches the jobs, and after it the loop is back at ui_inchar
\* or the call has returned (or the call is stuck inside jobs_poll).
C17_PollLoopResults ==
    [][/\ (jap_pc' = "host" /\ jap_ret'.from = "ui_inchar")
             => (jap_ret'.arg >= 0 /\ jap_ret'.len = jap_ret'.ui /\ ~polled')
       /\ (jap_pc = "host" /\ jap_pc' = "host" /\ jap_ret' # jap_ret)
             => jap_ret'.from = "ui_inchar"
       /\ (jap_pc = "host" /\ jap_pc' # "host")
             => (jap_pc' = "wait" /\ ~polled' /\ UNCHANGED jvars)
       /\ (jap_pc = "wait" /\ jap_pc' = "host")
             => /\ jap_ret' = JapRet("len", jap_ret'.ui, POLL_INTERVAL, jap_ret'.ui)
                /\ jap_ret'.len > 0
       /\ (jap_pc = "wait" /\ jap_pc' # "host")
             => (jap_pc' \in {"wait", "poll"} /\ polled' = polled)
       /\ jap_pc = "wait" => UNCHANGED <<job_table, job_key, open_fds>>
       /\ jap_pc' = "poll" => (jap_ret'.arg = POLL_INTERVAL /\ jap_ret'.ui <= 0)
       /\ (jap_pc # "poll" /\ jap_pc' = "poll") => jap_pc = "wait"
       /\ (jap_pc = "poll" /\ jap_pc' = "host")
             => \/ /\ jap_ret'.from = "job_activity"
                   /\ jap_ret'.len = job_activity
                   /\ job_key' = "K_JOB_ACTIVITY"
                   /\ polled'
                \/ /\ jap_ret'.from = "cursorhold"
                   /\ jap_ret'.len = cursorhold
                   /\ job_key' = ""
                   /\ polled'
                   /\ trig_curshold
                   /\ ellapsed + POLL_INTERVAL >= p_ut
       /\ (jap_pc = "poll" /\ jap_pc' = "poll"
              /\ <<job_table, job_key, open_fds, polled>>' # <<job_table, job_key, open_fds, polled>>)
             => exited' = Suspended
      ]_vars

\* Witness of C17: an indefinite-wait call has returned the job-activity
\* key after a jobs_poll call that returned TRUE.
C17_Witness ==
    /\ jap_pc = "host"
    /\ jap_ret.from = "job_activity"
    /\ job_key = "K_JOB_ACTIVITY"
    /\ polled

\* ceil(p_ut / POLL_INTERVAL), and 1 for p_ut = 0.
IdleCycles ==
    IF p_ut <= POLL_INTERVAL THEN 1 ELSE (p_ut + POLL_INTERVAL - 1) \div POLL_INTERVAL

\* C18: idle monotonicity.  In an indefinite-wait call with cursorhold
\* triggering on, ellapsed is POLL_INTERVAL times the number of cycles the
\* call has completed, counted from 0 at the call; the call has not returned
\* while fewer than ceil(p_ut / POLL_INTERVAL) cycles (at least one) are
\* completed, is never in a cycle past that number, and returns the
\* cursorhold key at the end of exactly that cycle.
C18_IdleMonotonicity ==
    /\ (jap_pc = "wait" /\ trig_curshold)
          => (ellapsed = cycles * POLL_INTERVAL /\ cycles < IdleCycles)
    /\ (jap_pc = "poll" /\ trig_curshold)
          => (ellapsed = (cycles - 1) * POLL_INTERVAL /\ cycles <= IdleCycles)
    /\ (jap_pc = "host" /\ jap_ret.from = "cursorhold") => cycles = IdleCycles
    /\ (jap_pc = "host" /\ jap_ret.from = "job_activity" /\ cycles > 0) => cycles <= IdleCycles

\* Witness of C18: with 'updatetime' at 200 the cursorhold key was returned
\* at the end of the second cycle.
C18_Witness ==
    /\ jap_pc = "host"
    /\ jap_ret.from = "cursorhold"
    /\ p_ut = 2 * POLL_INTERVAL
    /\ cycles = 2

\* C19: queue structure invariant.  In every state (the parts of queue_push
\* and queue_shift that hold the queue mutex are single steps, so the mutex
\* is free in every state): head is NULL exactly when every pushed event
\* was returned; tail is NULL or the last node linked from head; when head
\* is NULL tail is NULL too; and tail is not the node queue_shift returned
\* last.
C19_QueueStructure ==
    LET c == Chain(heap, message_queue.head, MaxAddr) IN
    /\ (message_queue.head = NULL) <=> (Len(popped) = Len(pushed))
    /\ message_queue.tail = NULL \/ (c # <<>> /\ message_queue.tail = c[Len(c)])
    /\ message_queue.head = NULL => message_queue.tail = NULL
    /\ message_queue.tail # NULL => message_queue.tail # msg["main"]

\* C20: buffer bound.  For every job in the table both cursors, as the
\* unsigned numbers they are, are at most BUF_SIZE; here for the behaviours
\* in which the last job_start went through without a failure.
C20_BufferBound ==
    job_ret.failed = "" =>
        \A i \in Occupied :
            /\ ~ULess(BUF_SIZE, job_table[i].stdout_buf_pos)
            /\ ~ULess(BUF_SIZE, job_table[i].stderr_buf_pos)

\* ------------------------------------------- claims settled on the bridges
\* vgetcs is blocked in wait(&char_wait_cond, ...) and no notify has reached it.
BgAwaitsGoSignal == pc["bg"] = "cw_wait" /\ ~cwsig

\* C21: no lost go-signal (message_queue.c).  Where condition waits end
\* only when signalled: in no state does vgetcs wait on char_wait_cond with
\* no signal sent to it while the consumer waits in queue_shift, without a
\* timeout, on an empty queue, or spins in char_wait with is_waiting clear.
C21_NoLostGoSignal ==
    (feat = "MESSAGEQUEUE" /\ ~spurious /\ BgAwaitsGoSignal) =>
        /\ ~(pc["main"] = "q_wait" /\ message_queue.head = NULL)
        /\ ~(pc["main"] = "spin" /\ ~is_waiting)

\* msg_inchar / ev_inchar returns for the UserInput event it took from the queue.
ReturnsForUserInput ==
    /\ pc["main"] = "shifted"
    /\ pc'["main"] = "vim"
    /\ msg["main"] # NULL
    /\ heap[msg["main"]].type = "UserInput"

\* C22: input length integrity.  Where condition waits end only when
\* signalled: whenever msg_inchar or ev_inchar returns for a UserInput event,
\* the value it returns is the length returned by the ui_inchar call after
\* which the input thread pushed that event.
C22_InputLengthIntegrity ==
    [][(~spurious /\ ReturnsForUserInput) =>
          [data |-> heap[msg["main"]].data, len |-> ret'] \in read_len]_vars

\* --------------------------------- claims settled on the job supervisor
\* All three pipe calls of the job's job_start succeeded: the job owns its
\* stdout and stderr, and its stdin until it has closed it.
ThreePipes(job) ==
    /\ {job.out, job.err} \subseteq job.own
    /\ job.in # job.out /\ job.in # job.err /\ job.out # job.err
    /\ job.own \ {job.out, job.err} = (IF "close(in)" \in Range(job.log) THEN {} ELSE {job.in})

\* C23: descriptor ownership.  In every step in which a job leaves the
\* table, and for every other job that stays in it, both started with three
\* pipes that pipe() made: every descriptor that the job that stays owns and
\* has open is open after the step.  No job closes a descriptor number that
\* job_start has given to another job.
C23_DescriptorOwnership ==
    [][\A i, k \in Slots :
          (/\ i # k
           /\ job_table[i] # NoJob /\ job_table'[i] = NoJob /\ ThreePipes(job_table[i])
           /\ job_table[k] # NoJob /\ job_table'[k] # NoJob /\ ThreePipes(job_table[k]))
          => (job_table[k].own \cap open_fds) \subseteq open_fds']_vars

\* C24: no output loss at exit.  In every step in which a job leaves the
\* table, if its three pipes are those pipe() made for it: no byte that its
\* child wrote to standard output is still unread in the pipe.
C24_NoOutputLoss ==
    [][\A i \in Slots :
          (job_table[i] # NoJob /\ job_table'[i] = NoJob /\ ThreePipes(job_table[i]))
          => job_table[i].out_pipe = 0]_vars

\* -------------------------------------------------- claims on timedwait
\* A timespec or timeval as a number of microseconds.
Micros(sec, usec) == sec * 1000000 + usec

\* C25: deadline arithmetic.  The abstime of every pthread_cond_timedwait
\* call, made for ms >= 0, is normalized (0 <= tv_nsec < 1,000,000,000),
\* lies ms milliseconds after the clock value that timedwait read, and the
\* call does not end in the fatal exit for EINVAL.
C25_DeadlineArithmetic ==
    deadline # NoDeadline =>
        /\ deadline.ms >= 0
        /\ ValidTimespec(deadline.ts)
        /\ deadline.ts.tv_nsec % 1000 = 0
        /\ Micros(deadline.ts.tv_sec, deadline.ts.tv_nsec \div 1000)
               = Micros(deadline.now.tv_sec, deadline.now.tv_usec) + deadline.ms * 1000
        /\ exited # timedwait_result("EINVAL")
====
